---- MODULE Spec2Model ----
(***************************************************************************)
(* Model of the HEIC batch converter: the constructor, the path resolver,  *)
(* the resize policy, the EXIF handling and the three per-format           *)
(* conversions (src/src/converter.py), file discovery                      *)
(* (src/src/file_discovery.py), the shared batch loop                      *)
(* (src/src/conversion_manager.py), main() and its batch loop              *)
(* (src/src/main.py), and the GUI window: its buttons, its liveness check  *)
(* and its worker thread (src/src/gui.py).                                 *)
(*                                                                         *)
(* Storage is a set of paths [dir, name]; a name is a string built the way *)
(* the code builds it (stem + extension, stem + "_" + counter + suffix).   *)
(* The codec boundary (pillow_heif, Pillow) is modelled by what it returns *)
(* or raises for each kind of input file.                                  *)
(***************************************************************************)
EXTENDS Integers, Sequences, FiniteSets, TLC

VARIABLES
    caller,               \* "gui": perform_conversion run by the GUI worker; "cli": main(); "resize": resize_image alone
    args,                 \* the argparse.Namespace: format, existing, resize, width, height
    heic_files,           \* the list returned by FileDiscovery.find_heic_files
    fs,                   \* the paths that exist on storage
    i,                    \* number of loop iterations completed (enumerate index of the next file)
    pc,                   \* "loop" | "done" | "raised" | "resize_call" | "resize_done"; the GUI worker: see SpecGui
    success_count, failure_count, skipped_count,
    converted_files, skipped_files, errors,
    log,                  \* history: one record per convert_to_* call or failed stat of an input
    summary,              \* <<>> until the summary is handed to the user, then <<the counts>>
    exit_code,            \* return value of main(): "0" or "1"; "None" while running and for the GUI
    conversion_running, conversion_cancelled,   \* HEICConverterGUI flags
    deleted,              \* number of input files removed by another process since discovery
    img,                  \* <<width, height>> of the image given to resize_image
    resized,              \* what resize_image returned: [err, size, same]
    progress,             \* history of the progress_callback(current, total) calls, <<current, total>> each
    kwargs,               \* keyword arguments of the HeicConvert(...) call under study
    hc,                   \* the HeicConvert instance: its attributes, or [raised |-> "ValueError"]
    meta,                 \* heif_file.info.get("exif") of the input: <<>> or <<the EXIF blob>>
    written,              \* what the conversion under study wrote and returned
    tree,                 \* the directory entries below the source folder
    platform,             \* "posix": file names match patterns case-sensitively; "windows": they do not
    runs,                 \* two conversions running side by side: position, input, what _get_output_path gave
    dirs,                 \* the directories that exist on storage
    gui                   \* HEICConverterGUI: widget states, Tk variables, the worker thread

vars == <<caller, args, heic_files, fs, i, pc, success_count, failure_count,
          skipped_count, converted_files, skipped_files, errors, log, summary,
          exit_code, conversion_running, conversion_cancelled, deleted, img, resized,
          progress, kwargs, hc, meta, written, tree, platform, runs, dirs, gui>>

\* the variables only the single-call specifications change
unitVars == <<kwargs, hc, meta, written, tree, platform>>

\* the variables only the concurrent specifications change
sessionVars == <<runs, dirs, gui>>

None == "None"

(***************************************************************************)
(* Bounds of the model.                                                    *)
(***************************************************************************)
MaxFiles == 3        \* longest list of discovered files
MaxDeleted == 1      \* input files another process may remove during a run
MaxDim == 4          \* largest source width / height
MaxPct == 120        \* largest --resize percentage
MaxTarget == 3       \* largest --width / --height
MaxQuality == 101    \* largest jpg_quality / heic_quality given to HeicConvert
MaxCompression == 10 \* largest png_compression given to HeicConvert
MaxTree == 4         \* most directory entries below a searched folder
MaxMainFiles == 2    \* most directory entries below the folder given to main()
MaxGuiFiles == 2     \* most input files below the source folder of the window
MaxGuiRuns == 2      \* batches started from one window

(***************************************************************************)
(* Python helpers.                                                         *)
(***************************************************************************)
\* An int-or-None option is <<>> for None and <<v>> for the integer v.
NoneOpt == <<>>
Some(v) == <<v>>
Val(x) == x[1]

\* bool(x) for an int-or-None option: None and 0 are falsy
Truthy(x) == x # NoneOpt /\ Val(x) # 0

Floor_mut(n, d) == n \div d

\* round(n / d) for d > 0: Python 3 rounds to nearest, ties to the even integer.
\* The code rounds a double (factor * width, height / width * w); for every
\* operand this model draws the double product rounds exactly as n / d does.
RoundHalfEven(n, d) ==
    LET q == n \div d
        r == n % d
    IN  IF 2 * r < d THEN q
        ELSE IF 2 * r > d THEN q + 1
        ELSE IF q % 2 = 0 THEN q ELSE q + 1

(***************************************************************************)
(* Pillow: Image.resize, ImageOps.scale, ImageOps.contain.                 *)
(***************************************************************************)
ImageError == [err |-> TRUE, size |-> <<0, 0>>, same |-> FALSE]

\* Image.resize(size): ValueError "height and width must be > 0" otherwise a new image
Image_resize(size) ==
    IF size[1] < 1 \/ size[2] < 1 THEN ImageError
    ELSE [err |-> FALSE, size |-> size, same |-> FALSE]

Scale_mut(im, pct) ==
    IF pct = 100 THEN [err |-> FALSE, size |-> im, same |-> FALSE]
    ELSE IF pct <= 0 THEN ImageError
    ELSE Image_resize(<<Floor_mut(pct * im[1], 100), Floor_mut(pct * im[2], 100)>>)

\* percentage = args.resize / 100; ImageOps.scale(img, percentage, filter)
ImageOps_scale(im, pct) ==
    IF pct = 100 THEN [err |-> FALSE, size |-> im, same |-> FALSE]      \* factor == 1: image.copy()
    ELSE IF pct <= 0 THEN ImageError                                     \* ValueError: factor must be > 0
    ELSE Image_resize(<<RoundHalfEven(pct * im[1], 100), RoundHalfEven(pct * im[2], 100)>>)

\* 100000000, the unbounded side handed to ImageOps.contain
BIG == 100000000

Contain_mut(im, size) ==
    IF im[1] * size[2] # size[1] * im[2]
    THEN IF im[1] * size[2] > size[1] * im[2]
         THEN Image_resize(<<size[1], Floor_mut(im[2] * size[1], im[1])>>)
         ELSE Image_resize(<<Floor_mut(im[1] * size[2], im[2]), size[2]>>)
    ELSE Image_resize(size)

\* ImageOps.contain(img, size, filter): im_ratio = w/h, dest_ratio = size[0]/size[1]
ImageOps_contain(im, size) ==
    IF im[1] * size[2] # size[1] * im[2]
    THEN IF im[1] * size[2] > size[1] * im[2]
         THEN Image_resize(<<size[1], RoundHalfEven(im[2] * size[1], im[1])>>)
         ELSE Image_resize(<<RoundHalfEven(im[1] * size[2], im[2]), size[2]>>)
    ELSE Image_resize(size)

Unchanged(im) == [err |-> FALSE, size |-> im, same |-> TRUE]

resize_image_mut(im, a) ==
    IF Truthy(a.width) THEN ImageOps_contain(im, <<Val(a.width), BIG>>)
    ELSE IF Truthy(a.resize) THEN ImageOps_scale(im, Val(a.resize))
    ELSE IF Truthy(a.height) THEN ImageOps_contain(im, <<BIG, Val(a.height)>>)
    ELSE Unchanged(im)

\* HeicConvert.resize_image(img, args)
resize_image(im, a) ==
    IF Truthy(a.resize) THEN ImageOps_scale(im, Val(a.resize))
    ELSE IF Truthy(a.width) THEN ImageOps_contain(im, <<Val(a.width), BIG>>)
    ELSE IF Truthy(a.height) THEN ImageOps_contain(im, <<BIG, Val(a.height)>>)
    ELSE Unchanged(im)

(***************************************************************************)
(* Storage and input files.                                                *)
(***************************************************************************)
\* The directory --output / the GUI output folder names (always set by both callers)
OutputDir == "out"

\* Candidate input files.  kind is what the codec boundary does with the file:
\*   "ok"      decodes to an RGB image, every encoder accepts it
\*   "rgba"    decodes to an RGBA image (alpha channel): the JPEG encoder raises
\*             OSError "cannot write mode RGBA as JPEG", PNG accepts it
\*   "corrupt" pillow_heif.open_heif raises
Files ==
    { [dir |-> "d1", stem |-> "a",   ext |-> ".heic", kind |-> "ok"],
      [dir |-> "d2", stem |-> "a",   ext |-> ".heic", kind |-> "ok"],
      [dir |-> "d1", stem |-> "a",   ext |-> ".heif", kind |-> "rgba"],
      [dir |-> "d1", stem |-> "b",   ext |-> ".heic", kind |-> "corrupt"] }

\* Pixel size every candidate decodes to
DecodedSize == <<2, 2>>

OutExts == {".jpg", ".png", ".heic"}

\* Python None where a path is expected
NonePath == [dir |-> None, name |-> None]

\* str(Path): directory and file name
PathOf(f) == [dir |-> f.dir, name |-> f.stem \o f.ext]

(***************************************************************************)
(* FileDiscovery.find_heic_files                                           *)
(***************************************************************************)
\* The directories: d2 is a subfolder of d1, d3 a subfolder of d2.
ParentOf(d) == IF d = "d2" THEN "d1" ELSE IF d = "d3" THEN "d2" ELSE None

RECURSIVE IsUnder(_, _)

IsUnder_mut(d, folder) == d = folder \/ ParentOf(d) = folder

\* d is folder or below it, at any depth
IsUnder(d, folder) ==
    \/ d = folder
    \/ ParentOf(d) # None /\ IsUnder(ParentOf(d), folder)

\* str.lower() of the extensions the model uses
Lower(ext) ==
    IF ext \in {".heic", ".HEIC", ".Heic"} THEN ".heic"
    ELSE IF ext \in {".heif", ".HEIF"} THEN ".heif"
    ELSE ext

\* pathlib matches a name against "*<pattern_ext>" with the case rule of the
\* path flavour: exactly on POSIX, case-folded on Windows
Matches(ext, pattern_ext, plat) ==
    IF plat = "windows" THEN Lower(ext) = Lower(pattern_ext) ELSE ext = pattern_ext

\* Path.glob("*" + pattern_ext): the entries of the folder itself, directories included
glob(entries, folder, pattern_ext, plat) ==
    { e \in entries : e.dir = folder /\ Matches(e.ext, pattern_ext, plat) }

\* Path.rglob("*" + pattern_ext): the entries of the folder and of every subfolder
rglob(entries, folder, pattern_ext, plat) ==
    { e \in entries : IsUnder(e.dir, folder) /\ Matches(e.ext, pattern_ext, plat) }

\* the set built at lines 20-21 (recursive) or 26-27
find_heic_files(entries, folder, recursive, plat) ==
    IF recursive
    THEN rglob(entries, folder, ".heic", plat) \cup rglob(entries, folder, ".HEIC", plat)
         \cup rglob(entries, folder, ".heif", plat) \cup rglob(entries, folder, ".HEIF", plat)
    ELSE glob(entries, folder, ".heic", plat) \cup glob(entries, folder, ".HEIC", plat)
         \cup glob(entries, folder, ".heif", plat) \cup glob(entries, folder, ".HEIF", plat)

\* list(heic_files): the set in some order, each element once
ListsOf(S) ==
    { q \in [1..Cardinality(S) -> S] : \A j, k \in 1..Cardinality(S) : j # k => q[j] # q[k] }

(***************************************************************************)
(* HeicConvert.__init__                                                    *)
(***************************************************************************)
\* what a raising constructor leaves: no instance
ConstructorRaised(exc) ==
    [raised |-> exc, output_dir |-> None, jpg_quality |-> 0, png_compression |-> 0,
     heic_quality |-> 0, existing_mode |-> None]

HeicConvert_mut(kw) ==
    IF kw.jpg_quality < 0 \/ kw.jpg_quality > 100 THEN ConstructorRaised("ValueError")
    ELSE IF kw.png_compression < 0 \/ kw.png_compression > 9 THEN ConstructorRaised("ValueError")
    ELSE IF kw.heic_quality < 1 \/ kw.heic_quality >= 100 THEN ConstructorRaised("ValueError")
    ELSE IF kw.existing_mode \notin {"rename", "overwrite", "fail"}
    THEN ConstructorRaised("ValueError")
    ELSE [raised |-> None, output_dir |-> kw.output_dir, jpg_quality |-> kw.jpg_quality,
          png_compression |-> kw.png_compression, heic_quality |-> kw.heic_quality,
          existing_mode |-> kw.existing_mode]

\* HeicConvert(output_dir, jpg_quality, png_compression, heic_quality, existing_mode)
HeicConvert(kw) ==
    IF kw.jpg_quality < 1 \/ kw.jpg_quality > 100 THEN ConstructorRaised("ValueError")
    ELSE IF kw.png_compression < 0 \/ kw.png_compression > 9 THEN ConstructorRaised("ValueError")
    ELSE IF kw.heic_quality < 1 \/ kw.heic_quality > 100 THEN ConstructorRaised("ValueError")
    ELSE IF kw.existing_mode \notin {"rename", "overwrite", "fail"}
    THEN ConstructorRaised("ValueError")
    ELSE [raised |-> None, output_dir |-> kw.output_dir, jpg_quality |-> kw.jpg_quality,
          png_compression |-> kw.png_compression, heic_quality |-> kw.heic_quality,
          existing_mode |-> kw.existing_mode]

(***************************************************************************)
(* HeicConvert._get_output_path                                            *)
(***************************************************************************)
RECURSIVE RenameFrom(_, _, _, _, _)

RenameFrom_mut(store, dir, stem, suffix, counter) ==
    [dir |-> dir, name |-> stem \o "_" \o ToString(counter) \o suffix]

\* the while loop of the rename branch, entered with output_path existing
RenameFrom(store, dir, stem, suffix, counter) ==
    LET output_path == [dir |-> dir, name |-> stem \o "_" \o ToString(counter) \o suffix]
    IN  IF output_path \in store
        THEN RenameFrom(store, dir, stem, suffix, counter + 1)
        ELSE output_path

OnExisting_mut(store, output_path, stem, extension, existing_mode) ==
    IF existing_mode \in {"overwrite", "fail"}
    THEN [exc |-> None, path |-> output_path]
    ELSE [exc |-> None, path |-> RenameFrom(store, output_path.dir, stem, extension, 1)]

OnExisting_mut2(store, output_path, stem, extension, existing_mode) ==
    IF existing_mode = "fail"
    THEN [exc |-> "FileExistsError", path |-> NonePath]
    ELSE [exc |-> None, path |-> RenameFrom(store, output_path.dir, stem, extension, 1)]

OnExisting_mut3(store, output_path, stem, extension, existing_mode) ==
    IF existing_mode = "fail"
    THEN [exc |-> "FileExistsError", path |-> NonePath]
    ELSE [exc |-> None, path |-> output_path]

\* the branch taken when the resolved path exists
OnExisting(store, output_path, stem, extension, existing_mode) ==
    IF existing_mode = "fail"
    THEN [exc |-> "FileExistsError", path |-> NonePath]
    ELSE IF existing_mode = "overwrite"
    THEN [exc |-> None, path |-> output_path]
    ELSE IF existing_mode = "rename"
    THEN [exc |-> None, path |-> RenameFrom(store, output_path.dir, stem, extension, 1)]
    ELSE [exc |-> None, path |-> output_path]

\* Two entries of storage say why a directory cannot be created: a regular
\* file occupies its path, or its parent directory is not writable.
FileAt(output_dir) == [dir |-> "", name |-> output_dir]

NotWritableParent(output_dir) == [dir |-> output_dir, name |-> ""]

\* os.makedirs(output_dir, exist_ok=True): the exception raised, or None
os_makedirs(store, output_dir) ==
    IF FileAt(output_dir) \in store THEN "FileExistsError"
    ELSE IF NotWritableParent(output_dir) \in store THEN "PermissionError"
    ELSE None

\* _get_output_path(input_path, extension) of a converter built with output_dir
\* and existing_mode; store is what exists on storage at the call
_get_output_path(store, output_dir, f, extension, existing_mode) ==
    LET output_filename == f.stem \o extension
        output_path == IF output_dir # None
                       THEN [dir |-> output_dir, name |-> output_filename]
                       ELSE [dir |-> f.dir, name |-> output_filename]
    IN  IF output_dir # None /\ os_makedirs(store, output_dir) # None
        THEN [exc |-> os_makedirs(store, output_dir), path |-> NonePath]
        ELSE IF output_path \in store
        THEN OnExisting(store, output_path, f.stem, extension, existing_mode)
        ELSE [exc |-> None, path |-> output_path]

(***************************************************************************)
(* HeicConvert._get_image_and_resize and the three conversions.            *)
(* A conversion returns [ret, fs, why]: the value returned (NonePath for   *)
(* None), storage afterwards, and which way it left: "ok", the             *)
(* "FileExistsError" handler or the generic "Exception" handler.           *)
(***************************************************************************)
NoImage == [ok |-> FALSE, size |-> <<0, 0>>, mode |-> None]

\* the image handed back once resize_image has returned r or raised
ImageAfterResize(f, r) ==
    IF r.err THEN NoImage                          \* resize raised: logged, None returned
    ELSE [ok |-> TRUE, size |-> r.size, mode |-> IF f.kind = "rgba" THEN "RGBA" ELSE "RGB"]

_get_image_and_resize(store, f, a) ==
    IF PathOf(f) \notin store \/ f.kind = "corrupt"
    THEN NoImage                                   \* open_heif raised: logged, None returned
    ELSE ImageAfterResize(f, resize_image(DecodedSize, a))

\* op: what _get_output_path returned or raised; heic_image: the decoded image
JpgOutcome(store, op, heic_image) ==
    IF op.exc = "FileExistsError"
    THEN [ret |-> NonePath, fs |-> store, why |-> "FileExistsError"]
    ELSE IF op.exc # None                        \* any other exception of _get_output_path
    THEN [ret |-> NonePath, fs |-> store, why |-> "Exception"]
    ELSE IF ~heic_image.ok                       \* None.size: AttributeError
    THEN [ret |-> NonePath, fs |-> store, why |-> "Exception"]
    ELSE IF heic_image.mode = "RGBA"             \* save: cannot write mode RGBA as JPEG;
    THEN [ret |-> NonePath, fs |-> store, why |-> "Exception"]   \* Pillow removes the file it created
    ELSE [ret |-> op.path, fs |-> store \cup {op.path}, why |-> "ok"]

convert_to_jpg(store, f, a) ==
    JpgOutcome(store, _get_output_path(store, OutputDir, f, ".jpg", a.existing),
               _get_image_and_resize(store, f, a))

PngOutcome(store, op, heic_image) ==
    IF op.exc = "FileExistsError"
    THEN [ret |-> NonePath, fs |-> store, why |-> "FileExistsError"]
    ELSE IF op.exc # None \/ ~heic_image.ok
    THEN [ret |-> NonePath, fs |-> store, why |-> "Exception"]
    ELSE [ret |-> op.path, fs |-> store \cup {op.path}, why |-> "ok"]

convert_to_png(store, f, a) ==
    PngOutcome(store, _get_output_path(store, OutputDir, f, ".png", a.existing),
               _get_image_and_resize(store, f, a))

\* The second _get_output_path call is given Path(heic_image), a PIL image (or
\* None): TypeError, caught by the generic handler, before anything is written.
HeicOutcome(store, op) ==
    IF op.exc = "FileExistsError"
    THEN [ret |-> NonePath, fs |-> store, why |-> "FileExistsError"]
    ELSE [ret |-> NonePath, fs |-> store, why |-> "Exception"]

convert_to_heic(store, f, a) ==
    HeicOutcome(store, _get_output_path(store, OutputDir, f, ".heic", a.existing))

\* values of the variables a specification does not use
NoRun == [pc |-> "idle", f |-> [dir |-> "d1", stem |-> "a", ext |-> ".heic", kind |-> "ok"], extension |-> None, output_dir |-> None,
          existing_mode |-> None, op |-> [exc |-> None, path |-> NonePath],
          ret |-> NonePath]

NoRuns == [p \in {1, 2} |-> NoRun]

\* HEICConverterGUI after __init__, nothing selected yet
NoGui == [status |-> "Ready", convert_button |-> "normal", stop_button |-> "disabled",
          settings |-> "normal", source_var |-> "", output_var |-> "",
          format_var |-> "jpg", existing_var |-> "fail", recursive_var |-> FALSE,
          at_start |-> NoneOpt, thread |-> "none", threads |-> 0, poll |-> FALSE,
          dialog |-> "none", started |-> 0]

NoKwargs == [output_dir |-> None, jpg_quality |-> 90, png_compression |-> 6,
             heic_quality |-> 90, existing_mode |-> "rename"]

NoConverter == ConstructorRaised(None)

NothingWritten ==
    [ret |-> NonePath, why |-> None, format |-> None, param |-> 0, size |-> <<0, 0>>,
     exif |-> NoneOpt]

(***************************************************************************)
(* What a conversion hands to the encoder: the image, the format's         *)
(* parameter held by the HeicConvert instance, and the EXIF bytes.  An     *)
(* EXIF blob is modelled by the <<width, height>> its 0th IFD records.     *)
(***************************************************************************)
\* image.info.get("exif") of the image built by Image.frombytes(mode, size,
\* data, ...): a new image, whose info is empty whatever heif_file.info holds;
\* Image.resize copies that info
ImageInfoExif(heif_info_exif) == NoneOpt

\* _handle_exif_data(image, original_size)['exif_bytes'], image having the
\* given info["exif"] and size
_handle_exif_data(info_exif, size, original_size) ==
    IF info_exif = NoneOpt THEN NoneOpt                      \* "No EXIF data found in image"
    ELSE IF original_size # size THEN Some(size)             \* ImageWidth / ImageLength updated
    ELSE info_exif

\* the caller's converter: HeicConvert(output_dir=..., jpg_quality=args.jpg_quality,
\* existing_mode=args.existing), the other keywords left at their defaults
CallerKwargs(a) ==
    [output_dir |-> OutputDir, jpg_quality |-> a.jpg_quality, png_compression |-> 6,
     heic_quality |-> 90, existing_mode |-> a.existing]

\* lines 202-209: heic_image.save(output_path, format="JPEG", quality=self.jpg_quality)
\* and piexif.insert of _handle_exif_data(heic_image, heic_image.size)
JpgWritten(conv, r, heic_image, heif_info_exif) ==
    IF r.why # "ok" THEN [NothingWritten EXCEPT !.why = r.why]
    ELSE [ret |-> r.ret, why |-> r.why, format |-> "JPEG", param |-> conv.jpg_quality,
          size |-> heic_image.size,
          exif |-> _handle_exif_data(ImageInfoExif(heif_info_exif), heic_image.size,
                                     heic_image.size)]

\* lines 232-243: save(format="PNG", compress_level=self.png_compression), then
\* the eXIf chunk
PngWritten(conv, r, heic_image, heif_info_exif) ==
    IF r.why # "ok" THEN [NothingWritten EXCEPT !.why = r.why]
    ELSE [ret |-> r.ret, why |-> r.why, format |-> "PNG", param |-> conv.png_compression,
          size |-> heic_image.size,
          exif |-> _handle_exif_data(ImageInfoExif(heif_info_exif), heic_image.size,
                                     heic_image.size)]

\* lines 269-270 (heif.save(output_path, quality=self.heic_quality)) are never reached
HeicWritten(conv, r) == [NothingWritten EXCEPT !.why = r.why]

(***************************************************************************)
(* The loop body shared by both batch loops.  A body state st carries what *)
(* one iteration reads and writes: fs, converted_files, skipped_count,     *)
(* file_converted, file_skipped, raised (an exception left the try block)  *)
(* and the history log.                                                    *)
(***************************************************************************)
BodyStart(idx) ==
    [fs |-> fs, converted_files |-> converted_files, skipped_count |-> skipped_count,
     file_converted |-> FALSE, file_skipped |-> FALSE, raised |-> FALSE,
     log |-> log, idx |-> idx]

Logged(st, fmt, why) == Append(st.log, [idx |-> st.idx, fmt |-> fmt, why |-> why])

\* "if xxx_path:" branch: stat the output (raises if it is not there), record it
Converted(st, r, fmt) ==
    IF r.ret \notin r.fs
    THEN [st EXCEPT !.fs = r.fs, !.raised = TRUE, !.log = Logged(st, fmt, r.why)]
    ELSE [st EXCEPT !.fs = r.fs, !.converted_files = Append(@, r.ret),
                    !.file_converted = TRUE, !.log = Logged(st, fmt, r.why)]

\* "else:" branch; counted says whether skipped_count is incremented
NotConverted(st, r, fmt, counted) ==
    IF counted
    THEN [st EXCEPT !.fs = r.fs, !.file_skipped = TRUE, !.skipped_count = @ + 1,
                    !.log = Logged(st, fmt, r.why)]
    ELSE [st EXCEPT !.fs = r.fs, !.log = Logged(st, fmt, r.why)]

\* Path(heic_file).stat() at the top of the try block
StatInput(st, f) ==
    IF PathOf(f) \in st.fs THEN st
    ELSE [st EXCEPT !.raised = TRUE, !.log = Logged(st, "stat", "Exception")]

(***************************************************************************)
(* perform_conversion (conversion_manager.py), run by the GUI worker.      *)
(***************************************************************************)
ManagerBranch(st, r, fmt) ==
    IF r.ret # NonePath THEN Converted(st, r, fmt) ELSE NotConverted(st, r, fmt, TRUE)

\* lines 35-74: the try block up to the three format branches
ManagerPng(st, f, a) ==
    IF ~st.raised /\ a.format = "png"
    THEN ManagerBranch(st, convert_to_png(st.fs, f, a), "png") ELSE st

ManagerJpg(st, f, a) ==
    IF ~st.raised /\ a.format = "jpg"
    THEN ManagerBranch(st, convert_to_jpg(st.fs, f, a), "jpg") ELSE st

ManagerHeic(st, f, a) ==
    IF ~st.raised /\ a.format \in {"heic"}
    THEN ManagerBranch(st, convert_to_heic(st.fs, f, a), "heic") ELSE st

ManagerBody(f, idx, a) ==
    ManagerHeic(ManagerJpg(ManagerPng(StatInput(BodyStart(idx), f), f, a), f, a), f, a)

ManagerCountsSuccess_mut(file_converted, file_skipped) == file_converted \/ file_skipped

\* line 81: if file_converted: success_count += 1
ManagerCountsSuccess(file_converted, file_skipped) == file_converted

ManagerNextIndex_mut(idx, n, raised) == IF raised THEN n ELSE idx + 1

\* the for loop moves to the next file, after the except handler's continue too
ManagerNextIndex(idx, n, raised) == idx + 1

\* lines 76-89: what the iteration leaves behind, st being the body's outcome
ManagerAfterBody(f, st) ==
    /\ fs' = st.fs
    /\ log' = st.log
    /\ converted_files' = st.converted_files
    /\ skipped_count' = st.skipped_count
    /\ skipped_files' = IF ~st.raised /\ st.file_skipped /\ ~st.file_converted
                        THEN Append(skipped_files, f) ELSE skipped_files
    /\ success_count' = IF ~st.raised /\ ManagerCountsSuccess(st.file_converted, st.file_skipped)
                        THEN success_count + 1 ELSE success_count
    /\ errors' = IF st.raised THEN Append(errors, f) ELSE errors
    /\ failure_count' = IF st.raised THEN failure_count + 1 ELSE failure_count
    /\ i' = ManagerNextIndex(i, Len(heic_files), st.raised)

\* lines 32-33: progress_callback(i, total_files), i being enumerate's index
ManagerProgressIndex_mut(idx) == idx + 1

ManagerProgressIndex(idx) == idx

ProcessFile ==
    /\ caller = "gui"
    /\ pc = "loop"
    /\ i < Len(heic_files)
    /\ progress' = Append(progress, <<ManagerProgressIndex(i), Len(heic_files)>>)
    /\ ManagerAfterBody(heic_files[i + 1], ManagerBody(heic_files[i + 1], i + 1, args))
    /\ UNCHANGED <<caller, args, heic_files, pc, summary, exit_code,
                   conversion_running, conversion_cancelled, deleted, img, resized, unitVars, sessionVars>>

Counts ==
    [success_count |-> success_count, failure_count |-> failure_count,
     skipped_count |-> skipped_count, converted |-> Len(converted_files)]

\* sum(Path(f).stat().st_size for f in heic_files) raises when an input is gone
StatAllRaises == \E k \in 1..Len(heic_files) : PathOf(heic_files[k]) \notin fs

\* perform_conversion lines 91-111 and convert_files lines 527-544 (gui.py):
\* the statistics, the final progress update, then the summary lines or the
\* "Error during conversion" handler
ManagerFinish ==
    /\ caller = "gui"
    /\ pc = "loop"
    /\ i >= Len(heic_files)
    /\ IF StatAllRaises
       THEN pc' = "raised" /\ summary' = summary /\ progress' = progress
       ELSE /\ pc' = "done"
            /\ summary' = <<Counts>>
            /\ progress' = Append(progress, <<Len(heic_files), Len(heic_files)>>)
    /\ UNCHANGED <<caller, args, heic_files, fs, i, success_count, failure_count,
                   skipped_count, converted_files, skipped_files, errors, log, exit_code,
                   conversion_running, conversion_cancelled, deleted, img, resized, unitVars, sessionVars>>

\* HEICConverterGUI.stop_conversion (the Stop button)
StopConversion ==
    /\ caller = "gui"
    /\ conversion_running
    /\ conversion_cancelled' = TRUE
    /\ UNCHANGED <<caller, args, heic_files, fs, i, pc, success_count, failure_count,
                   skipped_count, converted_files, skipped_files, errors, log, summary,
                   exit_code, conversion_running, deleted, img, resized, progress, unitVars, sessionVars>>

(***************************************************************************)
(* The conversion loop of main() (main.py).                                *)
(***************************************************************************)
\* line 195: if args.format != "both" or not file_converted
CliJpgCountsSkip(format, file_converted) == format # "both" \/ ~file_converted

CliCountsSuccess_mut(file_converted, file_skipped) == file_converted /\ ~file_skipped

\* line 217: if file_converted: success_count += 1
CliCountsSuccess(file_converted, file_skipped) == file_converted

CliPng(st, r) ==
    IF r.ret # NonePath THEN Converted(st, r, "png") ELSE NotConverted(st, r, "png", TRUE)

CliJpg(st, r, format) ==
    IF r.ret # NonePath THEN Converted(st, r, "jpg")
    ELSE NotConverted(st, r, "jpg", CliJpgCountsSkip(format, st.file_converted))

CliHeic(st, r) ==
    IF r.ret # NonePath THEN Converted(st, r, "heic")
    ELSE NotConverted(st, r, "heic", ~st.file_converted)

\* lines 167-210: the try block up to the three format branches
CliPngStep(st, f, a) ==
    IF ~st.raised /\ a.format \in {"png", "both"}
    THEN CliPng(st, convert_to_png(st.fs, f, a)) ELSE st

CliJpgStep(st, f, a) ==
    IF ~st.raised /\ a.format \in {"jpg", "both"}
    THEN CliJpg(st, convert_to_jpg(st.fs, f, a), a.format) ELSE st

CliHeicStep(st, f, a) ==
    IF ~st.raised /\ a.format \in {"heic"}
    THEN CliHeic(st, convert_to_heic(st.fs, f, a)) ELSE st

CliBody(f, idx, a) ==
    CliHeicStep(CliJpgStep(CliPngStep(StatInput(BodyStart(idx), f), f, a), f, a), f, a)

\* tqdm(heic_files) yields the next file, after the except handler's continue too
CliNextIndex(idx, n, raised) == idx + 1

\* lines 212-223: what the iteration leaves behind, st being the body's outcome
CliAfterBody(f, st) ==
    /\ fs' = st.fs
    /\ log' = st.log
    /\ converted_files' = st.converted_files
    /\ skipped_count' = st.skipped_count
    /\ skipped_files' = IF ~st.raised /\ st.file_skipped /\ ~st.file_converted
                        THEN Append(skipped_files, f) ELSE skipped_files
    /\ success_count' = IF ~st.raised /\ CliCountsSuccess(st.file_converted, st.file_skipped)
                        THEN success_count + 1 ELSE success_count
    /\ failure_count' = IF st.raised THEN failure_count + 1 ELSE failure_count
    /\ i' = CliNextIndex(i, Len(heic_files), st.raised)

CliProcessFile ==
    /\ caller = "cli"
    /\ pc = "loop"
    /\ i < Len(heic_files)
    /\ CliAfterBody(heic_files[i + 1], CliBody(heic_files[i + 1], i + 1, args))
    /\ UNCHANGED <<caller, args, heic_files, pc, errors, summary, exit_code,
                   conversion_running, conversion_cancelled, deleted, img, resized,
                   progress, unitVars, sessionVars>>

\* lines 225-262: the sizes, the printed summary and return 0, or the outer
\* handler ("An error occurred") and return 1
CliFinish ==
    /\ caller = "cli"
    /\ pc = "loop"
    /\ i >= Len(heic_files)
    /\ IF StatAllRaises
       THEN pc' = "raised" /\ summary' = summary /\ exit_code' = "1"
       ELSE pc' = "done" /\ summary' = <<Counts>> /\ exit_code' = "0"
    /\ UNCHANGED <<caller, args, heic_files, fs, i, success_count, failure_count,
                   skipped_count, converted_files, skipped_files, errors, log,
                   conversion_running, conversion_cancelled, deleted, img, resized,
                   progress, unitVars, sessionVars>>

(***************************************************************************)
(* Environment: another process removes a discovered input file while the  *)
(* batch is running.                                                       *)
(***************************************************************************)
DeleteInput ==
    /\ caller \in {"gui", "cli"}
    /\ pc = "loop"
    /\ deleted < MaxDeleted
    /\ \E k \in 1..Len(heic_files) :
          /\ PathOf(heic_files[k]) \in fs
          /\ fs' = fs \ {PathOf(heic_files[k])}
    /\ deleted' = deleted + 1
    /\ UNCHANGED <<caller, args, heic_files, i, pc, success_count, failure_count,
                   skipped_count, converted_files, skipped_files, errors, log, summary,
                   exit_code, conversion_running, conversion_cancelled, img, resized,
                   progress, unitVars, sessionVars>>

(***************************************************************************)
(* Initial states and specifications.                                      *)
(***************************************************************************)
Formats(c) == IF c = "cli" THEN {"png", "jpg", "heic", "both"} ELSE {"png", "jpg", "heic"}

ExistingModes == {"rename", "overwrite", "fail"}

\* lists of distinct discovered files
FileLists ==
    { s \in UNION { [1..n -> Files] : n \in 1..MaxFiles } :
        \A j, k \in DOMAIN s : j # k => s[j] # s[k] }

\* outputs of an earlier run already in the output directory
PreStems == {"a", "a_1"}

\* which formats the earlier run produced
PreExtSets == {OutExts, {".jpg"}, {".png"}}

Existing(stems, exts) == { [dir |-> OutputDir, name |-> s \o e] : s \in stems, e \in exts }

\* Spec: a batch run, right after discovery found the files (CLI) or the
\* worker thread was started by start_conversion (GUI)
Init ==
    /\ caller \in {"gui", "cli"}
    /\ \E fmt \in Formats(caller), ex \in ExistingModes :
          args = [format |-> fmt, existing |-> ex, resize |-> NoneOpt,
                  width |-> NoneOpt, height |-> NoneOpt]
    /\ heic_files \in FileLists
    /\ \E stems \in SUBSET PreStems, exts \in PreExtSets :
          fs = { PathOf(heic_files[k]) : k \in DOMAIN heic_files } \cup Existing(stems, exts)
    /\ i = 0
    /\ pc = "loop"
    /\ success_count = 0 /\ failure_count = 0 /\ skipped_count = 0
    /\ converted_files = <<>> /\ skipped_files = <<>> /\ errors = <<>>
    /\ log = <<>>
    /\ summary = <<>>
    /\ exit_code = "None"
    /\ conversion_running = (caller = "gui")
    /\ conversion_cancelled = FALSE
    /\ deleted = 0
    /\ img = <<1, 1>>
    /\ resized = Unchanged(<<1, 1>>)
    /\ progress = <<>>
    /\ kwargs = NoKwargs
    /\ hc = NoConverter
    /\ meta = NoneOpt
    /\ written = NothingWritten
    /\ tree = {}
    /\ platform = "posix"
    /\ runs = NoRuns
    /\ dirs = {}
    /\ gui = NoGui

Next ==
    \/ ProcessFile
    \/ ManagerFinish
    \/ StopConversion
    \/ CliProcessFile
    \/ CliFinish
    \/ DeleteInput

Spec == Init /\ [][Next]_vars

\* SpecResize: resize_image applied once to an image and an argument namespace
Sizes == (1..MaxDim) \X (1..MaxDim)

OptionValues(max) == {NoneOpt} \cup { Some(v) : v \in -1..max }

InitResize ==
    /\ caller = "resize"
    /\ \E p \in OptionValues(MaxPct), w \in OptionValues(MaxTarget), h \in OptionValues(MaxTarget) :
          args = [format |-> "jpg", existing |-> "fail", resize |-> p, width |-> w, height |-> h]
    /\ img \in Sizes
    /\ resized = Unchanged(img)
    /\ pc = "resize_call"
    /\ heic_files = <<>>
    /\ fs = {}
    /\ i = 0
    /\ success_count = 0 /\ failure_count = 0 /\ skipped_count = 0
    /\ converted_files = <<>> /\ skipped_files = <<>> /\ errors = <<>>
    /\ log = <<>>
    /\ summary = <<>>
    /\ exit_code = "None"
    /\ conversion_running = FALSE
    /\ conversion_cancelled = FALSE
    /\ deleted = 0
    /\ progress = <<>>
    /\ kwargs = NoKwargs
    /\ hc = NoConverter
    /\ meta = NoneOpt
    /\ written = NothingWritten
    /\ tree = {}
    /\ platform = "posix"
    /\ runs = NoRuns
    /\ dirs = {}
    /\ gui = NoGui

ApplyResize ==
    /\ pc = "resize_call"
    /\ resized' = resize_image(img, args)
    /\ pc' = "resize_done"
    /\ UNCHANGED <<caller, args, heic_files, fs, i, success_count, failure_count,
                   skipped_count, converted_files, skipped_files, errors, log, summary,
                   exit_code, conversion_running, conversion_cancelled, deleted, img,
                   progress, unitVars, sessionVars>>

NextResize == ApplyResize

SpecResize == InitResize /\ [][NextResize]_vars

\* SpecMain: main() from the parsed arguments to its return value
MainEntries == Files \cup { [dir |-> "d1", stem |-> "e", ext |-> ".jpg", kind |-> "other"] }

MainTrees == { t \in SUBSET MainEntries : Cardinality(t) <= MaxMainFiles }

\* os.path.isdir(args.folder): d1, d2 and d3 are the directories there are
IsDir(folder) == folder \in {"d1", "d2", "d3"}

\* what is in or at the output directory when main() starts: outputs of an
\* earlier run, or one of the two obstacles to creating it
OutputStates ==
    { Existing(stems, exts) : stems \in SUBSET {"a"}, exts \in PreExtSets }
        \cup { {FileAt(OutputDir)}, {NotWritableParent(OutputDir)} }

InitMain ==
    /\ caller = "cli"
    /\ pc = "main_start"
    /\ \E folder \in {None, "nodir", "d1"}, recursive \in BOOLEAN, fmt \in Formats("cli"),
          ex \in ExistingModes, q \in {0, 90} :
          args = [format |-> fmt, existing |-> ex, resize |-> NoneOpt,
                  width |-> NoneOpt, height |-> NoneOpt,
                  folder |-> folder, recursive |-> recursive,
                  jpg_quality |-> q, png_compression |-> 6, heic_quality |-> 90]
    /\ tree \in MainTrees
    /\ platform \in {"posix", "windows"}
    /\ runs = NoRuns
    /\ dirs = {}
    /\ gui = NoGui
    /\ \E out \in OutputStates : fs = { PathOf(e) : e \in tree } \cup out
    /\ heic_files = <<>>
    /\ hc = NoConverter
    /\ kwargs = NoKwargs
    /\ i = 0
    /\ success_count = 0 /\ failure_count = 0 /\ skipped_count = 0
    /\ converted_files = <<>> /\ skipped_files = <<>> /\ errors = <<>>
    /\ log = <<>>
    /\ summary = <<>>
    /\ exit_code = "None"
    /\ conversion_running = FALSE
    /\ conversion_cancelled = FALSE
    /\ deleted = 0
    /\ img = <<1, 1>>
    /\ resized = Unchanged(<<1, 1>>)
    /\ progress = <<>>
    /\ meta = NoneOpt
    /\ written = NothingWritten

\* lines 115-146: where main() stands once it has looked at the folder and
\* built the converter
MainStartOutcome(a) ==
    IF a.folder = None THEN "usage"                                \* sys.exit("Error: folder is required.")
    ELSE IF ~IsDir(a.folder) THEN "invalid"                        \* return 1
    ELSE IF HeicConvert(CallerKwargs(a)).raised # None THEN "crashed"   \* ValueError outside the try
    ELSE "discover"

ExitCodeAt_mut(label) == IF label = "crashed" THEN "1" ELSE "0"

\* the process exit status: sys.exit(<message>) and an uncaught exception give 1,
\* return 1 at line 141, return 0 at line 155
ExitCodeAt(label) ==
    IF label \in {"usage", "invalid", "crashed"} THEN "1"
    ELSE IF label = "no_files" THEN "0"
    ELSE "None"

MainStart ==
    /\ caller = "cli"
    /\ pc = "main_start"
    /\ pc' = MainStartOutcome(args)
    /\ exit_code' = ExitCodeAt(MainStartOutcome(args))
    /\ kwargs' = IF IsDir(args.folder) THEN CallerKwargs(args) ELSE kwargs
    /\ hc' = IF IsDir(args.folder) THEN HeicConvert(CallerKwargs(args)) ELSE hc
    /\ UNCHANGED <<caller, args, heic_files, fs, i, success_count, failure_count,
                   skipped_count, converted_files, skipped_files, errors, log, summary,
                   conversion_running, conversion_cancelled, deleted, img,
                   resized, progress, meta, written, tree, platform, sessionVars>>

\* lines 148-157: discovery, and return 0 when nothing was found
MainDiscover ==
    /\ caller = "cli"
    /\ pc = "discover"
    /\ heic_files' \in ListsOf(find_heic_files(tree, args.folder, args.recursive, platform))
    /\ pc' = IF heic_files' = <<>> THEN "no_files" ELSE "loop"
    /\ exit_code' = ExitCodeAt(pc')
    /\ UNCHANGED <<caller, args, fs, i, success_count, failure_count,
                   skipped_count, converted_files, skipped_files, errors, log, summary,
                   conversion_running, conversion_cancelled, deleted, img,
                   resized, progress, unitVars, sessionVars>>

NextMain ==
    \/ MainStart
    \/ MainDiscover
    \/ CliProcessFile
    \/ CliFinish
    \/ DeleteInput

SpecMain == InitMain /\ [][NextMain]_vars

\* SpecConvert: a caller builds its converter from the request and converts
\* one file to one format
ResizeRequests ==
    { [resize |-> p, width |-> w, height |-> h] :
        p \in {NoneOpt, Some(50), Some(100)}, w \in {NoneOpt, Some(3)}, h \in {NoneOpt, Some(1)} }

InitConvert ==
    /\ caller = "convert"
    /\ pc = "build_converter"
    /\ \E fmt \in {"jpg", "png", "heic"}, ex \in ExistingModes, rr \in ResizeRequests,
          q \in {80, 90}, c \in {6, 9}, h \in {85, 90} :
          args = [format |-> fmt, existing |-> ex, resize |-> rr.resize,
                  width |-> rr.width, height |-> rr.height,
                  jpg_quality |-> q, png_compression |-> c, heic_quality |-> h]
    /\ \E f \in Files : heic_files = <<f>>
    /\ \E stems \in SUBSET PreStems, exts \in PreExtSets :
          fs = { PathOf(heic_files[k]) : k \in DOMAIN heic_files } \cup Existing(stems, exts)
    /\ meta \in {NoneOpt, Some(DecodedSize)}
    /\ written = NothingWritten
    /\ hc = NoConverter
    /\ kwargs = NoKwargs
    /\ i = 0
    /\ success_count = 0 /\ failure_count = 0 /\ skipped_count = 0
    /\ converted_files = <<>> /\ skipped_files = <<>> /\ errors = <<>>
    /\ log = <<>>
    /\ summary = <<>>
    /\ exit_code = "None"
    /\ conversion_running = FALSE
    /\ conversion_cancelled = FALSE
    /\ deleted = 0
    /\ img = <<1, 1>>
    /\ resized = Unchanged(<<1, 1>>)
    /\ progress = <<>>
    /\ tree = {}
    /\ platform = "posix"
    /\ runs = NoRuns
    /\ dirs = {}
    /\ gui = NoGui

\* main.py lines 145-146, gui.py lines 498-502
BuildConverter ==
    /\ pc = "build_converter"
    /\ kwargs' = CallerKwargs(args)
    /\ hc' = HeicConvert(CallerKwargs(args))
    /\ pc' = "convert_call"
    /\ UNCHANGED <<caller, args, heic_files, fs, i, success_count, failure_count,
                   skipped_count, converted_files, skipped_files, errors, log, summary,
                   exit_code, conversion_running, conversion_cancelled, deleted, img,
                   resized, progress, meta, written, tree, platform, sessionVars>>

\* the storage and the record of the output after one convert_to_* call
ConvertJpg(f, r) ==
    /\ fs' = r.fs
    /\ written' = JpgWritten(hc, r, _get_image_and_resize(fs, f, args), meta)

ConvertPng(f, r) ==
    /\ fs' = r.fs
    /\ written' = PngWritten(hc, r, _get_image_and_resize(fs, f, args), meta)

ConvertHeic(f, r) ==
    /\ fs' = r.fs
    /\ written' = HeicWritten(hc, r)

ConvertOne ==
    /\ pc = "convert_call"
    /\ IF args.format = "jpg" THEN ConvertJpg(heic_files[1], convert_to_jpg(fs, heic_files[1], args))
       ELSE IF args.format = "png"
       THEN ConvertPng(heic_files[1], convert_to_png(fs, heic_files[1], args))
       ELSE ConvertHeic(heic_files[1], convert_to_heic(fs, heic_files[1], args))
    /\ pc' = "convert_done"
    /\ UNCHANGED <<caller, args, heic_files, i, success_count, failure_count,
                   skipped_count, converted_files, skipped_files, errors, log, summary,
                   exit_code, conversion_running, conversion_cancelled, deleted, img,
                   resized, progress, kwargs, hc, meta, tree, platform, sessionVars>>

NextConvert == BuildConverter \/ ConvertOne

SpecConvert == InitConvert /\ [][NextConvert]_vars

\* SpecDiscovery: one find_heic_files(folder, recursive) call on a directory tree
TreeEntries ==
    { [dir |-> "d1", stem |-> "a", ext |-> ".heic", kind |-> "ok"],
      [dir |-> "d1", stem |-> "b", ext |-> ".HEIC", kind |-> "ok"],
      [dir |-> "d1", stem |-> "c", ext |-> ".Heic", kind |-> "ok"],
      [dir |-> "d1", stem |-> "d", ext |-> ".heif", kind |-> "ok"],
      [dir |-> "d1", stem |-> "e", ext |-> ".jpg",  kind |-> "other"],
      [dir |-> "d1", stem |-> "g", ext |-> ".heic", kind |-> "dir"],
      [dir |-> "d2", stem |-> "a", ext |-> ".heic", kind |-> "ok"],
      [dir |-> "d3", stem |-> "f", ext |-> ".HEIF", kind |-> "ok"] }

Trees == { t \in SUBSET TreeEntries : Cardinality(t) <= MaxTree }

InitDiscovery ==
    /\ caller = "discovery"
    /\ pc = "find_call"
    /\ tree \in Trees
    /\ platform \in {"posix", "windows"}
    /\ runs = NoRuns
    /\ dirs = {}
    /\ gui = NoGui
    /\ \E folder \in {"d1", "d2"}, recursive \in BOOLEAN :
          args = [format |-> "jpg", existing |-> "fail", resize |-> NoneOpt,
                  width |-> NoneOpt, height |-> NoneOpt,
                  folder |-> folder, recursive |-> recursive]
    /\ heic_files = <<>>
    /\ fs = {}
    /\ i = 0
    /\ success_count = 0 /\ failure_count = 0 /\ skipped_count = 0
    /\ converted_files = <<>> /\ skipped_files = <<>> /\ errors = <<>>
    /\ log = <<>>
    /\ summary = <<>>
    /\ exit_code = "None"
    /\ conversion_running = FALSE
    /\ conversion_cancelled = FALSE
    /\ deleted = 0
    /\ img = <<1, 1>>
    /\ resized = Unchanged(<<1, 1>>)
    /\ progress = <<>>
    /\ kwargs = NoKwargs
    /\ hc = NoConverter
    /\ meta = NoneOpt
    /\ written = NothingWritten

Find ==
    /\ pc = "find_call"
    /\ heic_files' \in ListsOf(find_heic_files(tree, args.folder, args.recursive, platform))
    /\ pc' = "found"
    /\ UNCHANGED <<caller, args, fs, i, success_count, failure_count,
                   skipped_count, converted_files, skipped_files, errors, log, summary,
                   exit_code, conversion_running, conversion_cancelled, deleted, img,
                   resized, progress, unitVars, sessionVars>>

NextDiscovery == Find

SpecDiscovery == InitDiscovery /\ [][NextDiscovery]_vars

\* SpecConstruct: one HeicConvert(...) call
QualityEdges == {-1, 0, 1, 90, 100, MaxQuality}

ModeValues == ExistingModes \cup {"invalid_mode", "skip"}

InitConstruct ==
    /\ caller = "construct"
    /\ pc = "construct_call"
    /\ \E q \in -1..MaxQuality, c \in -1..MaxCompression, h \in QualityEdges, m \in ModeValues :
          kwargs = [output_dir |-> OutputDir, jpg_quality |-> q, png_compression |-> c,
                    heic_quality |-> h, existing_mode |-> m]
    /\ hc = NoConverter
    /\ args = [format |-> "jpg", existing |-> "fail", resize |-> NoneOpt,
               width |-> NoneOpt, height |-> NoneOpt]
    /\ heic_files = <<>>
    /\ fs = {}
    /\ i = 0
    /\ success_count = 0 /\ failure_count = 0 /\ skipped_count = 0
    /\ converted_files = <<>> /\ skipped_files = <<>> /\ errors = <<>>
    /\ log = <<>>
    /\ summary = <<>>
    /\ exit_code = "None"
    /\ conversion_running = FALSE
    /\ conversion_cancelled = FALSE
    /\ deleted = 0
    /\ img = <<1, 1>>
    /\ resized = Unchanged(<<1, 1>>)
    /\ progress = <<>>
    /\ meta = NoneOpt
    /\ written = NothingWritten
    /\ tree = {}
    /\ platform = "posix"
    /\ runs = NoRuns
    /\ dirs = {}
    /\ gui = NoGui

Construct ==
    /\ pc = "construct_call"
    /\ hc' = HeicConvert(kwargs)
    /\ pc' = "constructed"
    /\ UNCHANGED <<caller, args, heic_files, fs, i, success_count, failure_count,
                   skipped_count, converted_files, skipped_files, errors, log, summary,
                   exit_code, conversion_running, conversion_cancelled, deleted, img,
                   resized, progress, kwargs, meta, written, tree, platform, sessionVars>>

NextConstruct == Construct

SpecConstruct == InitConstruct /\ [][NextConstruct]_vars

(***************************************************************************)
(* Vocabulary of the properties.                                           *)
(***************************************************************************)
Batch == caller \in {"gui", "cli"}

Entries(why) == { k \in DOMAIN log : log[k].why = why }

\* files of the list for which some log entry says why
FilesWith(why) == { log[k].idx : k \in Entries(why) }

\* the formats one file is to be converted to
Requested(format) == IF format = "both" THEN {"png", "jpg"} ELSE {format}

\* the log entries of the conversions that returned a path, in order
OkLog == SelectSeq(log, LAMBDA e : e.why = "ok")

SameStem == \A k \in DOMAIN heic_files : heic_files[k].stem = heic_files[1].stem

\* the output directory holds nothing but this run's outputs
OnlyOwnOutputs ==
    { q \in fs : q.dir = OutputDir } = { converted_files[k] : k \in DOMAIN converted_files }

Abs(x) == IF x < 0 THEN -x ELSE x

\* r is n / d rounded to a nearest integer (d > 0)
Nearest(r, n, d) == 2 * Abs(r * d - n) <= d

Clamp(x, lo, hi) == IF x < lo THEN lo ELSE IF x > hi THEN hi ELSE x

PlainPath(f, e) == [dir |-> OutputDir, name |-> f.stem \o e]

Numbered(f, e, n) == [dir |-> OutputDir, name |-> f.stem \o "_" \o ToString(n) \o e]

(***************************************************************************)
(* Properties of the batch loops (specification Spec).                     *)
(***************************************************************************)

\* C1: in perform_conversion every file whose decode or encode raised is
\* counted in failure_count and recorded in errors, and skipped_count counts
\* only the files whose output already existed under policy fail.
C1_FailuresCountedAsFailures ==
    caller = "gui" =>
        /\ \A x \in FilesWith("Exception") :
              \E k \in DOMAIN errors : errors[k] = heic_files[x]
        /\ failure_count = Cardinality(FilesWith("Exception"))
        /\ skipped_count = Cardinality(FilesWith("FileExistsError"))

\* C2: once stop_conversion has set conversion_cancelled during a running
\* batch, the batch runner starts no further file.
C2_NoFileStartedAfterCancel ==
    [][(caller = "gui" /\ conversion_cancelled /\ pc = "loop") => (i' = i)]_vars

\* C3: under policy rename _get_output_path returns <stem><ext> when that path
\* does not exist, else <stem>_N<ext> for the smallest N >= 1 whose path does
\* not exist (checked on every storage a batch reaches); and when the files
\* of a rename run all share one stem and the output directory started empty,
\* the outputs of each format are named stem.ext, stem_1.ext, stem_2.ext, ...
\* in exactly that order.
C3_RenameSmallestFree ==
    Batch =>
        /\ \A x \in DOMAIN heic_files : \A e \in OutExts :
              LET f == heic_files[x]
                  r == _get_output_path(fs, OutputDir, f, e, "rename")
              IN  /\ r.exc = None
                  /\ r.path \notin fs
                  /\ PlainPath(f, e) \notin fs => r.path = PlainPath(f, e)
                  /\ PlainPath(f, e) \in fs =>
                        \E n \in 1..(Cardinality(fs) + 1) :
                            /\ r.path = Numbered(f, e, n)
                            /\ \A m \in 1..(n - 1) : Numbered(f, e, m) \in fs
        /\ (args.existing = "rename" /\ SameStem /\ OnlyOwnOutputs) =>
              /\ Len(OkLog) = Len(converted_files)
              /\ \A k \in DOMAIN converted_files :
                    LET f == heic_files[OkLog[k].idx]
                        e == "." \o OkLog[k].fmt
                        earlier == Cardinality({ j \in 1..(k - 1) : OkLog[j].fmt = OkLog[k].fmt })
                    IN  converted_files[k] =
                            IF earlier = 0 THEN PlainPath(f, e) ELSE Numbered(f, e, earlier)

C3_Witness ==
    /\ Batch
    /\ args.existing = "rename"
    /\ args.format = "png"
    /\ converted_files = << [dir |-> OutputDir, name |-> "a.png"],
                            [dir |-> OutputDir, name |-> "a_1.png"],
                            [dir |-> OutputDir, name |-> "a_2.png"] >>

C5_EveryFileOnceInOrder ==
    (Batch /\ ~conversion_cancelled) =>
        /\ pc # "loop" => i = Len(heic_files)
        /\ \A k \in DOMAIN log :
              /\ log[k].idx \in 1..i
              /\ log[k].why \in {"ok", "FileExistsError", "Exception"}
              /\ k > 1 => log[k - 1].idx <= log[k].idx
        /\ \A x \in 1..i :
              LET mine == { k \in DOMAIN log : log[k].idx = x }
              IN  \/ /\ Cardinality(mine) = 1
                     /\ \A k \in mine : log[k].fmt = "stat"
                  \/ \A fmt \in Requested(args.format) :
                        Cardinality({ k \in mine : log[k].fmt = fmt }) = 1
        /\ Len(log) <= i * Cardinality(Requested(args.format))

C5_Witness ==
    /\ Batch
    /\ ~conversion_cancelled
    /\ pc = "done"
    /\ Len(heic_files) = 3
    /\ args.format = "jpg"
    /\ log[1].why = "Exception"
    /\ log[2].why = "ok"
    /\ log[3].why = "FileExistsError"

\* C6: a batch run always ends by producing its summary: no per-file error,
\* a missing input included, makes the run end without it.
C6_SummaryAlwaysProduced ==
    (Batch /\ pc # "loop") => (summary # <<>> /\ pc = "done")

\* C7: in the CLI loop with format=both, success_count is the number of
\* files processed so far for which the PNG or the JPG conversion returned a
\* path: such a file is counted exactly once, also when its other format was
\* skipped or failed, and no other file is counted.
C7_BothSuccessIffOneFormat ==
    (caller = "cli" /\ args.format = "both") =>
        success_count = Cardinality(FilesWith("ok"))

C7_Witness ==
    /\ caller = "cli"
    /\ args.format = "both"
    /\ i = 2
    /\ success_count = 2
    /\ log = << [idx |-> 1, fmt |-> "png", why |-> "ok"],
                [idx |-> 1, fmt |-> "jpg", why |-> "Exception"],
                [idx |-> 2, fmt |-> "png", why |-> "FileExistsError"],
                [idx |-> 2, fmt |-> "jpg", why |-> "ok"] >>

\* C17: in a run under policy overwrite, _get_output_path returns the plain
\* <stem><ext> path whether or not it exists, never a suffixed one; resolving
\* again, on the same storage or once the target has been written, returns the
\* identical path; and every output of the run is a plain path.
C17_OverwriteIdempotent ==
    (Batch /\ args.existing = "overwrite") =>
        /\ \A x \in DOMAIN heic_files : \A e \in OutExts :
              LET f == heic_files[x]
                  first == _get_output_path(fs, OutputDir, f, e, args.existing)
                  again == _get_output_path(fs \cup {PlainPath(f, e)}, OutputDir, f, e,
                                            args.existing)
              IN  /\ first = [exc |-> None, path |-> PlainPath(f, e)]
                  /\ again = first
        /\ LET ok == OkLog
           IN  /\ Len(ok) = Len(converted_files)
               /\ \A k \in DOMAIN converted_files :
                     converted_files[k] = PlainPath(heic_files[ok[k].idx], "." \o ok[k].fmt)

C17_Witness ==
    /\ Batch
    /\ args.existing = "overwrite"
    /\ args.format = "png"
    /\ [dir |-> OutputDir, name |-> "a_1.png"] \in fs
    /\ converted_files = << [dir |-> OutputDir, name |-> "a.png"],
                            [dir |-> OutputDir, name |-> "a.png"],
                            [dir |-> OutputDir, name |-> "a.png"] >>

\* C18 as stated: in perform_conversion the callback of a file is invoked
\* after the file has been processed and not before it is started: the k-th
\* invocation follows the k-th file and reports k files completed.
C18_ProgressAfterEachFile ==
    caller = "gui" =>
        /\ pc = "loop" => Len(progress) = i
        /\ \A k \in DOMAIN progress : progress[k] = <<k, Len(heic_files)>>

\* C18 amended: perform_conversion invokes progress_callback(i, total) at the
\* top of each iteration, before the file is started, i being the number of
\* files completed so far (0 for the first call); one more call,
\* progress_callback(total, total), follows the statistics, and is not made
\* when they raise.  So the k-th invocation reports k - 1.
C18_ProgressBeforeEachFile ==
    caller = "gui" =>
        /\ \A k \in DOMAIN progress : progress[k] = <<k - 1, Len(heic_files)>>
        /\ pc = "loop" => Len(progress) = i
        /\ pc = "done" => Len(progress) = Len(heic_files) + 1
        /\ pc = "raised" => Len(progress) = Len(heic_files)

C18_Witness ==
    /\ caller = "gui"
    /\ pc = "done"
    /\ progress = << <<0, 3>>, <<1, 3>>, <<2, 3>>, <<3, 3>> >>

(***************************************************************************)
(* SpecResolve: two conversions (two runs of the program, or two batches)  *)
(* working into shared storage at the same time.  A conversion is          *)
(* convert_to_jpg or convert_to_png, and another process can run between   *)
(* its call of _get_output_path and its save.                              *)
(***************************************************************************)
Procs == {1, 2}

\* a conversion is called without resize options
NoResizeArgs(existing_mode) ==
    [format |-> "jpg", existing |-> existing_mode, resize |-> NoneOpt,
     width |-> NoneOpt, height |-> NoneOpt]

StorageAfterResolve_mut(store, d, output_dir, op) ==
    [fs |-> IF op.exc = None THEN store \cup {op.path} ELSE store,
     dirs |-> IF output_dir # None /\ os_makedirs(store, output_dir) = None
              THEN d \cup {output_dir} ELSE d]

StorageAfterResolve_mut2(store, d, output_dir, op) ==
    [fs |-> IF op.exc = None THEN store \ {op.path} ELSE store,
     dirs |-> IF output_dir # None /\ os_makedirs(store, output_dir) = None
              THEN d \cup {output_dir} ELSE d]

\* storage once _get_output_path has returned or raised op: the files and the
\* directories.  Line 46 is the only statement that changes storage.
StorageAfterResolve(store, d, output_dir, op) ==
    [fs |-> store,
     dirs |-> IF output_dir # None /\ os_makedirs(store, output_dir) = None
              THEN d \cup {output_dir} ELSE d]

\* what can be in the way of the output directory
Blockers == { {}, {FileAt(OutputDir)}, {NotWritableParent(OutputDir)} }

InitResolve ==
    /\ caller = "resolve"
    /\ args = NoResizeArgs("rename")
    /\ \E f1, f2 \in Files, e1, e2 \in {".jpg", ".png"}, m1, m2 \in ExistingModes,
          o1, o2 \in {OutputDir, None} :
          runs = [p \in Procs |->
                    [NoRun EXCEPT !.pc = "call",
                                  !.f = IF p = 1 THEN f1 ELSE f2,
                                  !.extension = IF p = 1 THEN e1 ELSE e2,
                                  !.existing_mode = IF p = 1 THEN m1 ELSE m2,
                                  !.output_dir = IF p = 1 THEN o1 ELSE o2]]
    /\ \E stems \in SUBSET PreStems, exts \in PreExtSets, b \in Blockers, made \in BOOLEAN :
          /\ (b # {} \/ ~made) => stems = {}
          /\ b # {} => ~made
          /\ fs = { PathOf(f) : f \in Files } \cup Existing(stems, exts) \cup b
          /\ dirs = {"d1", "d2"} \cup (IF made THEN {OutputDir} ELSE {})
    /\ heic_files = <<>>
    /\ i = 0
    /\ pc = "calls"
    /\ success_count = 0 /\ failure_count = 0 /\ skipped_count = 0
    /\ converted_files = <<>> /\ skipped_files = <<>> /\ errors = <<>>
    /\ log = <<>>
    /\ summary = <<>>
    /\ exit_code = "None"
    /\ conversion_running = FALSE
    /\ conversion_cancelled = FALSE
    /\ deleted = 0
    /\ img = <<1, 1>>
    /\ resized = Unchanged(<<1, 1>>)
    /\ progress = <<>>
    /\ kwargs = NoKwargs
    /\ hc = NoConverter
    /\ meta = NoneOpt
    /\ written = NothingWritten
    /\ tree = {}
    /\ platform = "posix"
    /\ gui = NoGui

batchVars == <<caller, args, heic_files, i, pc, success_count, failure_count,
               skipped_count, converted_files, skipped_files, errors, log, summary,
               exit_code, conversion_running, conversion_cancelled, deleted, img,
               resized, progress>>

\* converter.py 197 / 226: output_path = self._get_output_path(heic_file, ext)
RunResolveTo(p, r, op) ==
    /\ runs' = [runs EXCEPT ![p] = [r EXCEPT !.pc = "resolved", !.op = op]]
    /\ fs' = StorageAfterResolve(fs, dirs, r.output_dir, op).fs
    /\ dirs' = StorageAfterResolve(fs, dirs, r.output_dir, op).dirs

RunResolve(p) ==
    /\ caller = "resolve"
    /\ runs[p].pc = "call"
    /\ RunResolveTo(p, runs[p],
                    _get_output_path(fs, runs[p].output_dir, runs[p].f, runs[p].extension,
                                     runs[p].existing_mode))
    /\ UNCHANGED <<batchVars, unitVars, gui>>

\* converter.py 199-219 / 229-254: decode, save, return the path or None
RunSaveTo(p, r, out) ==
    /\ runs' = [runs EXCEPT ![p] = [r EXCEPT !.pc = "returned", !.ret = out.ret]]
    /\ fs' = out.fs

RunSave(p) ==
    /\ caller = "resolve"
    /\ runs[p].pc = "resolved"
    /\ RunSaveTo(p, runs[p],
                 IF runs[p].extension = ".jpg"
                 THEN JpgOutcome(fs, runs[p].op,
                                 _get_image_and_resize(fs, runs[p].f, NoResizeArgs(runs[p].existing_mode)))
                 ELSE PngOutcome(fs, runs[p].op,
                                 _get_image_and_resize(fs, runs[p].f, NoResizeArgs(runs[p].existing_mode))))
    /\ UNCHANGED <<batchVars, unitVars, dirs, gui>>

NextResolve == \E p \in Procs : RunResolve(p) \/ RunSave(p)

SpecResolve == InitResolve /\ [][NextResolve]_vars

\* the plain output path of a conversion, before any collision handling
PlainTarget(r) ==
    [dir |-> IF r.output_dir # None THEN r.output_dir ELSE r.f.dir,
     name |-> r.f.stem \o r.extension]

\* the conversion has its output path and has not saved yet
Holding(r) == r.pc = "resolved" /\ r.op.exc = None

\* C22: nothing reserves the name between the existence check and the save:
\* a path handed out under rename is still absent from storage while its
\* conversion holds it, so two conversions of the same stem into the same
\* directory that both hold a path hold the same one.
C22_RenameRace ==
    \A p, q \in Procs :
        ( /\ p # q
          /\ Holding(runs[p]) /\ Holding(runs[q])
          /\ runs[p].existing_mode = "rename" /\ runs[q].existing_mode = "rename"
          /\ PlainTarget(runs[p]) = PlainTarget(runs[q]) )
        => /\ runs[p].op.path = runs[q].op.path
           /\ runs[p].op.path \notin fs

\* two conversions hold the same numbered path
C22_Witness ==
    /\ Holding(runs[1]) /\ Holding(runs[2])
    /\ runs[1].existing_mode = "rename" /\ runs[2].existing_mode = "rename"
    /\ runs[1].f # runs[2].f
    /\ runs[1].op.path = [dir |-> OutputDir, name |-> "a_1.jpg"]
    /\ runs[2].op.path = [dir |-> OutputDir, name |-> "a_1.jpg"]

\* C30: _get_output_path creates, modifies and deletes no file, whatever the
\* policy and whether it returns a path or raises; of the directories it can
\* only add the configured output directory.
C30_ResolveWritesNoFile ==
    [][\A p \in Procs :
          (runs[p].pc = "call" /\ runs'[p].pc = "resolved") =>
              /\ fs' = fs
              /\ dirs \subseteq dirs'
              /\ dirs' \subseteq dirs \cup {OutputDir}
              /\ runs[p].output_dir = None => dirs' = dirs]_vars

\* one call raised FileExistsError under fail, the other was given a numbered
\* name under rename, and the output directory holds what it held before
C30_Witness ==
    /\ caller = "resolve"
    /\ runs[1].pc = "resolved" /\ runs[1].op.exc = "FileExistsError"
    /\ runs[1].existing_mode = "fail"
    /\ runs[2].pc = "resolved"
    /\ runs[2].op.path = [dir |-> OutputDir, name |-> "a_1.png"]
    /\ { q \in fs : q.dir = OutputDir } = { [dir |-> OutputDir, name |-> "a.png"] }

(***************************************************************************)
(* SpecGui: one HEICConverterGUI window.  The Tk main loop runs the        *)
(* handlers (start_conversion, stop_conversion, check_conversion_progress, *)
(* the check box and the radio buttons) one at a time; the worker thread   *)
(* runs convert_files beside it.  pc is the worker's position: "idle",     *)
(* "worker_start", "loop", then "done", "no_files", or "dialog" (the error *)
(* box is open) and "failed".                                              *)
(***************************************************************************)
\* gui.py 546-564
build_args_object(g) ==
    [format |-> g.format_var, existing |-> g.existing_var, resize |-> NoneOpt,
     width |-> NoneOpt, height |-> NoneOpt, recursive |-> g.recursive_var,
     jpg_quality |-> 90, png_compression |-> 6]

disable_settings_mut(g) == [g EXCEPT !.settings = "disabled", !.stop_button = "normal"]

\* gui.py 470-477
disable_settings(g) ==
    [g EXCEPT !.settings = "disabled", !.convert_button = "disabled", !.stop_button = "normal"]

\* gui.py 479-486
enable_settings(g) ==
    [g EXCEPT !.settings = "normal", !.convert_button = "normal", !.stop_button = "disabled"]

\* the worker thread has returned from convert_files
ThreadEnded(g) == [g EXCEPT !.thread = "dead", !.threads = @ - 1]

GuiEntries ==
    { [dir |-> "d1", stem |-> "a", ext |-> ".heic", kind |-> "ok"],
      [dir |-> "d2", stem |-> "a", ext |-> ".heic", kind |-> "ok"],
      [dir |-> "d1", stem |-> "b", ext |-> ".heic", kind |-> "corrupt"] }

GuiTrees == { t \in SUBSET GuiEntries : Cardinality(t) <= MaxGuiFiles }

\* the existing_var combobox accepts typed text as well as its three values
ExistingVarValues == {"fail", "rename", "ask"}

InitGui ==
    /\ caller = "gui"
    /\ pc = "idle"
    /\ \E src \in {"d1", "nodir"}, fmt \in {"jpg", "png"}, ex \in ExistingVarValues,
          rec \in BOOLEAN :
          gui = [NoGui EXCEPT !.source_var = src, !.output_var = OutputDir,
                              !.format_var = fmt, !.existing_var = ex,
                              !.recursive_var = rec]
    /\ args = build_args_object(gui)
    /\ tree \in GuiTrees
    /\ fs = { PathOf(e) : e \in tree }
    /\ dirs = {"d1", "d2", "d3", OutputDir}
    /\ platform = "posix"
    /\ runs = NoRuns
    /\ heic_files = <<>>
    /\ hc = NoConverter
    /\ kwargs = NoKwargs
    /\ i = 0
    /\ success_count = 0 /\ failure_count = 0 /\ skipped_count = 0
    /\ converted_files = <<>> /\ skipped_files = <<>> /\ errors = <<>>
    /\ log = <<>>
    /\ summary = <<>>
    /\ exit_code = "None"
    /\ conversion_running = FALSE
    /\ conversion_cancelled = FALSE
    /\ deleted = 0
    /\ img = <<1, 1>>
    /\ resized = Unchanged(<<1, 1>>)
    /\ progress = <<>>
    /\ meta = NoneOpt
    /\ written = NothingWritten

loopVars == <<heic_files, fs, i, success_count, failure_count, skipped_count,
              converted_files, skipped_files, errors, log, summary, progress>>

restVars == <<caller, exit_code, deleted, img, resized, meta, written, tree, platform,
              runs, dirs>>

\* gui.py 381-440: the Convert button.  The four checks of lines 383-399
\* show an error box and return; otherwise the flags are set, the settings
\* disabled, the worker started and the first liveness check scheduled.
StartConversion ==
    /\ caller = "gui"
    /\ gui.convert_button = "normal"
    /\ gui.started < MaxGuiRuns
    /\ IF gui.source_var = "" \/ ~IsDir(gui.source_var)
          \/ gui.output_var = "" \/ gui.output_var \notin dirs
       THEN /\ gui' = [gui EXCEPT !.dialog = "error"]
            /\ UNCHANGED <<args, pc, conversion_running, conversion_cancelled>>
       ELSE /\ args' = build_args_object(gui)
            /\ conversion_running' = TRUE
            /\ conversion_cancelled' = FALSE
            /\ gui' = [disable_settings(gui) EXCEPT
                           !.status = "Converting...",
                           !.at_start = Some(build_args_object(gui)),
                           !.thread = "alive", !.threads = @ + 1,
                           !.poll = TRUE, !.dialog = "none", !.started = @ + 1]
            /\ pc' = "worker_start"
    /\ UNCHANGED <<loopVars, restVars, kwargs, hc>>

\* gui.py 442-447: the Stop button
StopClicked ==
    /\ caller = "gui"
    /\ gui.stop_button = "normal"
    /\ conversion_running
    /\ conversion_cancelled' = TRUE
    /\ gui' = [gui EXCEPT !.status = "Cancelling..."]
    /\ UNCHANGED <<loopVars, restVars, args, pc, kwargs, hc, conversion_running>>

\* gui.py 199-203: the recursive check box is not in settings_widgets, so it
\* can be clicked at any time
ToggleRecursive ==
    /\ caller = "gui"
    /\ gui' = [gui EXCEPT !.recursive_var = ~@]
    /\ UNCHANGED <<loopVars, restVars, args, pc, kwargs, hc,
                   conversion_running, conversion_cancelled>>

\* gui.py 162-176: the format radio buttons, members of settings_widgets
SelectFormat ==
    /\ caller = "gui"
    /\ gui.settings = "normal"
    /\ \E fmt \in {"jpg", "png"} \ {gui.format_var} :
          gui' = [gui EXCEPT !.format_var = fmt]
    /\ UNCHANGED <<loopVars, restVars, args, pc, kwargs, hc,
                   conversion_running, conversion_cancelled>>

PollReschedules_mut(alive) == FALSE

\* gui.py 451-453: self.root.after(100, self.check_conversion_progress)
PollReschedules(alive) == alive

\* gui.py 449-468: the liveness check run by the main loop every 100 ms
CheckConversionProgress ==
    /\ caller = "gui"
    /\ gui.poll
    /\ IF gui.thread = "alive"
       THEN /\ gui' = [gui EXCEPT !.poll = PollReschedules(TRUE)]
            /\ UNCHANGED <<conversion_running, conversion_cancelled>>
       ELSE /\ gui' = [enable_settings(gui) EXCEPT
                           !.status = IF conversion_cancelled THEN "Conversion cancelled"
                                      ELSE "Conversion complete",
                           !.poll = FALSE]
            /\ conversion_running' = FALSE
            /\ conversion_cancelled' = FALSE
    /\ UNCHANGED <<loopVars, restVars, args, pc, kwargs, hc>>

\* gui.py 541-543: the handler of convert_files logs, sets the status and
\* opens the error box, which keeps the worker until it is dismissed
WorkerFailed(g) == [g EXCEPT !.status = "Conversion failed", !.dialog = "error"]

\* gui.py 488-513: the worker reads the Tk variables, builds the converter
\* and searches the source folder; a is the Namespace it built, conv the
\* converter (or the ValueError), found the files of the search
WorkerBeginTo(a, conv, found) ==
    /\ args' = a
    /\ kwargs' = CallerKwargs(a)
    /\ hc' = conv
    /\ IF conv.raised # None
       THEN /\ heic_files' = <<>>
            /\ gui' = WorkerFailed(gui)
            /\ pc' = "dialog"
       ELSE /\ heic_files' \in ListsOf(found)
            /\ IF found = {}
               THEN /\ gui' = ThreadEnded([gui EXCEPT !.status = "No HEIC files found"])
                    /\ pc' = "no_files"
               ELSE /\ gui' = gui
                    /\ pc' = "loop"
    /\ i' = 0
    /\ success_count' = 0 /\ failure_count' = 0 /\ skipped_count' = 0
    /\ converted_files' = <<>> /\ skipped_files' = <<>> /\ errors' = <<>>
    /\ log' = <<>>
    /\ summary' = <<>>
    /\ progress' = <<>>

WorkerBegin ==
    /\ caller = "gui"
    /\ pc = "worker_start"
    /\ WorkerBeginTo(build_args_object(gui),
                     HeicConvert(CallerKwargs(build_args_object(gui))),
                     find_heic_files({ e \in tree : PathOf(e) \in fs }, gui.source_var,
                                     gui.recursive_var, platform))
    /\ UNCHANGED <<restVars, fs, conversion_running, conversion_cancelled>>

\* one iteration of perform_conversion with the update_progress closure of
\* gui.py 517-520, which sets the status to "Converting file i/n"
WorkerFile ==
    /\ caller = "gui"
    /\ pc = "loop"
    /\ gui.thread = "alive"
    /\ i < Len(heic_files)
    /\ progress' = Append(progress, <<ManagerProgressIndex(i), Len(heic_files)>>)
    /\ gui' = [gui EXCEPT !.status = "Converting file"]
    /\ ManagerAfterBody(heic_files[i + 1], ManagerBody(heic_files[i + 1], i + 1, args))
    /\ UNCHANGED <<restVars, args, heic_files, pc, summary, kwargs, hc,
                   conversion_running, conversion_cancelled>>

\* conversion_manager.py 91-111 and gui.py 523-543: the statistics, the last
\* progress call, the summary lines and "Conversion complete", or the handler
WorkerFinish ==
    /\ caller = "gui"
    /\ pc = "loop"
    /\ gui.thread = "alive"
    /\ i >= Len(heic_files)
    /\ IF StatAllRaises
       THEN /\ pc' = "dialog"
            /\ gui' = WorkerFailed(gui)
            /\ UNCHANGED <<summary, progress>>
       ELSE /\ pc' = "done"
            /\ summary' = <<Counts>>
            /\ progress' = Append(progress, <<Len(heic_files), Len(heic_files)>>)
            /\ gui' = ThreadEnded([gui EXCEPT !.status = "Conversion complete"])
    /\ UNCHANGED <<restVars, args, heic_files, fs, i, success_count, failure_count,
                   skipped_count, converted_files, skipped_files, errors, log, kwargs, hc,
                   conversion_running, conversion_cancelled>>

\* gui.py 544: messagebox.showerror returns when the user closes the box,
\* and convert_files with it
DismissDialog ==
    /\ caller = "gui"
    /\ pc = "dialog"
    /\ pc' = "failed"
    /\ gui' = ThreadEnded(gui)
    /\ UNCHANGED <<loopVars, restVars, args, kwargs, hc,
                   conversion_running, conversion_cancelled>>

NextGui ==
    \/ StartConversion
    \/ StopClicked
    \/ ToggleRecursive
    \/ SelectFormat
    \/ CheckConversionProgress
    \/ WorkerBegin
    \/ WorkerFile
    \/ WorkerFinish
    \/ DismissDialog
    \/ DeleteInput

SpecGui == InitGui /\ [][NextGui]_vars

\* The main loop keeps running: a scheduled check_conversion_progress is
\* eventually called.  Nothing is assumed about the worker or the user.
SpecGuiLive == SpecGui /\ WF_vars(CheckConversionProgress)

\* the worker has read the settings it runs with
WorkerHasSettings == caller = "gui" /\ pc \in {"loop", "done", "no_files", "dialog", "failed"}

\* C23: the settings a GUI batch runs with are those captured when
\* start_conversion was invoked: the Namespace the worker uses equals the one
\* built by start_conversion, and the files it goes through are those of a
\* search with the recursive value of that moment.
C23_SettingsCapturedAtStart ==
    WorkerHasSettings =>
        /\ args = Val(gui.at_start)
        /\ { heic_files[k] : k \in DOMAIN heic_files }
              \subseteq find_heic_files(tree, gui.source_var, Val(gui.at_start).recursive, platform)

\* C24: at most one worker thread is alive, and while a worker is alive or
\* the liveness check has not yet reset the state the Convert button is
\* disabled.
C24_OneWorker ==
    caller = "gui" =>
        /\ gui.threads <= 1
        /\ (gui.thread = "alive") = (gui.threads = 1)
        /\ (gui.thread = "alive" \/ conversion_running) =>
              gui.convert_button = "disabled" /\ gui.poll

\* the second batch of the window is running, the first one being over
C24_Witness ==
    /\ gui.started = 2
    /\ gui.thread = "alive"
    /\ gui.threads = 1
    /\ pc = "loop"

\* everything check_conversion_progress restores
GuiReset ==
    /\ gui.settings = "normal"
    /\ gui.convert_button = "normal"
    /\ gui.stop_button = "disabled"
    /\ ~conversion_running
    /\ ~conversion_cancelled

\* C25: once the worker thread has terminated (after the summary, after an
\* error, or because no files were found) check_conversion_progress
\* eventually re-enables the settings and the Convert button, disables the
\* Stop button and resets conversion_running and conversion_cancelled; a
\* batch that is started begins with conversion_cancelled False.
C25_EventuallyReset ==
    /\ (gui.thread = "dead") ~> GuiReset
    /\ [][gui'.started > gui.started => ~conversion_cancelled']_vars

\* a cancelled batch that ended in the error handler has been reset
C25_Witness ==
    /\ pc = "failed"
    /\ gui.thread = "dead"
    /\ gui.status = "Conversion cancelled"
    /\ GuiReset

\* C29: when convert_files ended in its exception handler the error box was
\* shown, and the status line of the settled run (the liveness check has
\* seen the worker dead) is the error status.
C29_ErrorStatusPersists ==
    (caller = "gui" /\ pc \in {"dialog", "failed"}) =>
        /\ gui.dialog = "error"
        /\ ~conversion_running => gui.status = "Conversion failed"

\* the entries of a list of paths are pairwise distinct
Distinct(paths) == \A j, k \in DOMAIN paths : j # k => paths[j] # paths[k]

\* C21: in a sequential run under policy rename every output path is new
\* when it is produced: it is not on storage before the step that writes it
\* (neither a file of an earlier run nor an earlier output of this run), so
\* no file is overwritten, and the entries of converted_files are pairwise
\* distinct and all on storage.
C21_RenameNeverReuses ==
    /\ []((Batch /\ args.existing = "rename") =>
            /\ Distinct(converted_files)
            /\ \A k \in DOMAIN converted_files : converted_files[k] \in fs)
    /\ [][(Batch /\ args.existing = "rename") =>
              \A k \in (Len(converted_files) + 1)..Len(converted_files') :
                  converted_files'[k] \notin fs]_vars

C21_Witness ==
    /\ Batch
    /\ args.existing = "rename"
    /\ args.format = "jpg"
    /\ converted_files = << [dir |-> OutputDir, name |-> "a_2.jpg"],
                            [dir |-> OutputDir, name |-> "a_3.jpg"] >>

\* C26: under policy overwrite two distinct inputs of one run never write to
\* the same output path: the entries of converted_files are pairwise
\* distinct.
C26_OverwriteOutputsDistinct ==
    (Batch /\ args.existing = "overwrite") => Distinct(converted_files)

SingleFormat == args.format \in {"jpg", "png", "heic"}

\* the three counters after a step, as one number
CountedAfter == success_count' + skipped_count' + failure_count'

\* C27: in perform_conversion with format jpg, png or heic every file
\* increments exactly one of success_count, skipped_count, failure_count:
\* each iteration raises the sum of the three by one, the sum equals the
\* number of files gone through (N once the loop is over), converted_files
\* has success_count entries and skipped_files has skipped_count entries.
C27_ManagerCountsEachFileOnce ==
    /\ []((caller = "gui" /\ SingleFormat) =>
            /\ success_count + skipped_count + failure_count = i
            /\ pc # "loop" => i = Len(heic_files)
            /\ Len(converted_files) = success_count
            /\ Len(skipped_files) = skipped_count)
    /\ [][(caller = "gui" /\ SingleFormat /\ i' # i) =>
              /\ CountedAfter = success_count + skipped_count + failure_count + 1
              /\ success_count' >= success_count
              /\ skipped_count' >= skipped_count
              /\ failure_count' >= failure_count]_vars

C27_Witness ==
    /\ caller = "gui"
    /\ SingleFormat
    /\ pc # "loop"
    /\ success_count = 1
    /\ skipped_count = 1
    /\ failure_count = 1

\* C28: in the loop of main() every file increments exactly one of
\* success_count, skipped_count, failure_count, for every format value,
\* both included: the three numbers add up to the number of files gone
\* through.
C28_CliCountsEachFileOnce ==
    caller = "cli" => success_count + skipped_count + failure_count = i

(***************************************************************************)
(* Properties of resize_image (specification SpecResize).                  *)
(***************************************************************************)
Resized == caller = "resize" /\ pc = "resize_done"

PercentMode == Truthy(args.resize)
WidthMode == ~Truthy(args.resize) /\ Truthy(args.width)
HeightMode == ~Truthy(args.resize) /\ ~Truthy(args.width) /\ Truthy(args.height)

\* C8: resize_image applies one directive chosen by priority percent, then
\* width, then height: the result is the one the chosen directive gives alone,
\* the lower ones being ignored; with all three unset or zero the very image
\* comes back, its dimensions unchanged.
C8_ResizePriority ==
    Resized =>
        /\ PercentMode =>
              /\ resized = ImageOps_scale(img, Val(args.resize))
              /\ resized = resize_image(img, [args EXCEPT !.width = NoneOpt, !.height = NoneOpt])
        /\ WidthMode =>
              /\ resized = ImageOps_contain(img, <<Val(args.width), BIG>>)
              /\ resized = resize_image(img, [args EXCEPT !.resize = NoneOpt, !.height = NoneOpt])
        /\ HeightMode =>
              /\ resized = ImageOps_contain(img, <<BIG, Val(args.height)>>)
              /\ resized = resize_image(img, [args EXCEPT !.resize = NoneOpt, !.width = NoneOpt])
        /\ (~PercentMode /\ ~WidthMode /\ ~HeightMode) =>
              /\ ~resized.err
              /\ resized.same
              /\ resized.size = img

C8_Witness ==
    /\ Resized
    /\ img = <<2, 4>>
    /\ args.resize = Some(50)
    /\ args.width = Some(3)
    /\ args.height = Some(1)
    /\ resized.size = <<1, 2>>
    /\ ~resized.err

\* C9 as stated: in percent mode the percent is clamped to [1,100] and the new
\* dimensions are floor(width*percent/100) by floor(height*percent/100), for
\* every source size and every supplied percent (stated where those
\* dimensions are at least one pixel).
C9_ClampedFloor ==
    (Resized /\ PercentMode) =>
        LET p == Clamp(Val(args.resize), 1, 100)
            claimed == <<(img[1] * p) \div 100, (img[2] * p) \div 100>>
        IN  (claimed[1] >= 1 /\ claimed[2] >= 1) =>
                /\ ~resized.err
                /\ resized.size = claimed

\* C9 amended: in percent mode the percent is not clamped; for a percent
\* p >= 1 each new dimension is the source dimension times p/100 rounded to a
\* nearest integer (so p > 100 enlarges), unless a dimension would round to 0
\* (dimension * p <= 50), and then, as for a negative percent, resize_image
\* raises instead of returning an image.
C9_PercentRoundsToNearest ==
    (Resized /\ PercentMode) =>
        LET p == Val(args.resize)
            zero == img[1] * p <= 50 \/ img[2] * p <= 50
        IN  /\ resized.err <=> (p < 0 \/ zero)
            /\ ~resized.err =>
                  /\ Nearest(resized.size[1], img[1] * p, 100)
                  /\ Nearest(resized.size[2], img[2] * p, 100)

C9_Witness ==
    /\ Resized
    /\ PercentMode
    /\ img = <<3, 4>>
    /\ args.resize = Some(120)
    /\ ~resized.err
    /\ resized.size = <<4, 5>>

Constructed == caller = "construct" /\ pc = "constructed"

\* C20: HeicConvert(...) returns an instance exactly when jpg_quality is in
\* 1..100, png_compression in 0..9, heic_quality in 1..100 and existing_mode
\* one of rename, overwrite, fail, the instance keeping the values given; for
\* any other value it raises ValueError.
C20_ConstructIffValid ==
    Constructed =>
        LET valid == /\ kwargs.jpg_quality \in 1..100
                     /\ kwargs.png_compression \in 0..9
                     /\ kwargs.heic_quality \in 1..100
                     /\ kwargs.existing_mode \in {"rename", "overwrite", "fail"}
        IN  /\ valid => /\ hc.raised = None
                        /\ hc.jpg_quality = kwargs.jpg_quality
                        /\ hc.png_compression = kwargs.png_compression
                        /\ hc.heic_quality = kwargs.heic_quality
                        /\ hc.existing_mode = kwargs.existing_mode
            /\ ~valid => hc = ConstructorRaised("ValueError")

C20_Witness ==
    /\ Constructed
    /\ kwargs.jpg_quality = 1
    /\ kwargs.png_compression = 9
    /\ kwargs.heic_quality = 100
    /\ kwargs.existing_mode = "overwrite"
    /\ hc.raised = None

(***************************************************************************)
(* Properties of find_heic_files (specification SpecDiscovery).            *)
(***************************************************************************)
Found == caller = "discovery" /\ pc = "found"

Returned == { heic_files[k] : k \in DOMAIN heic_files }

\* the entries of the searched scope: the folder itself, or the folder and
\* everything below it
InScope(e) == IF args.recursive THEN IsUnder(e.dir, args.folder) ELSE e.dir = args.folder

\* C15: find_heic_files returns exactly the files of the searched scope whose
\* extension lower-cased is .heic or .heif (.Heic included), each once, and
\* nothing else.
C15_ExactlyHeicFilesAnyCase ==
    Found =>
        /\ Returned = { e \in tree : /\ InScope(e)
                                     /\ e.kind # "dir"
                                     /\ Lower(e.ext) \in {".heic", ".heif"} }
        /\ \A j, k \in DOMAIN heic_files : j # k => heic_files[j] # heic_files[k]

\* C16: the non-recursive result is the part of the recursive result that
\* lies directly in the folder, and the recursive result is the union of the
\* non-recursive results of the folder and of every folder below it; with one
\* matching file at each of depth 0, 1 and 2 that is one entry
\* non-recursively and all three recursively.
C16_RecursiveScope ==
    Found =>
        LET rec == find_heic_files(tree, args.folder, TRUE, platform)
            here(d) == find_heic_files(tree, d, FALSE, platform)
            chain == { [dir |-> "d1", stem |-> "a", ext |-> ".heic", kind |-> "ok"],
                       [dir |-> "d2", stem |-> "a", ext |-> ".heic", kind |-> "ok"],
                       [dir |-> "d3", stem |-> "f", ext |-> ".HEIF", kind |-> "ok"] }
        IN  /\ ~args.recursive =>
                  /\ Returned = { e \in rec : e.dir = args.folder }
                  /\ \A e \in Returned : e.dir = args.folder
            /\ args.recursive =>
                  /\ Returned = rec
                  /\ Returned = UNION { here(d) : d \in { x \in {"d1", "d2", "d3"} : IsUnder(x, args.folder) } }
            /\ (tree = chain /\ args.folder = "d1") =>
                  Cardinality(Returned) = IF args.recursive THEN 3 ELSE 1

C16_Witness ==
    /\ Found
    /\ args.recursive
    /\ args.folder = "d1"
    /\ tree = { [dir |-> "d1", stem |-> "a", ext |-> ".heic", kind |-> "ok"],
                [dir |-> "d2", stem |-> "a", ext |-> ".heic", kind |-> "ok"],
                [dir |-> "d3", stem |-> "f", ext |-> ".HEIF", kind |-> "ok"] }
    /\ Len(heic_files) = 3
    /\ heic_files[3].dir = "d3"

(***************************************************************************)
(* Properties of one conversion (specification SpecConvert).               *)
(***************************************************************************)
ConvertDone == caller = "convert" /\ pc = "convert_done"

\* C11: when the source carries an EXIF blob and the resize changed the
\* dimensions, the blob attached to the JPG output records the final
\* (post-resize) width and height.
C11_ExifDimensionsRewritten ==
    (ConvertDone /\ args.format = "jpg" /\ written.why = "ok"
        /\ meta # NoneOpt /\ written.size # DecodedSize) =>
        written.exif = Some(written.size)

\* C12: each output is encoded with the parameter of the request: JPG with
\* args.jpg_quality, PNG with args.png_compression, HEIC with
\* args.heic_quality.
C12_EncoderUsesRequestParameter ==
    (ConvertDone /\ written.why = "ok") =>
        /\ written.format = "JPEG" => written.param = args.jpg_quality
        /\ written.format = "PNG" => written.param = args.png_compression
        /\ written.format = "HEIC" => written.param = args.heic_quality

\* C14: convert_to_heic on a decodable input whose output path does not
\* collide, with a percent, a width or a height directive that resize_image
\* accepts, writes the output and returns its path, named <stem>.heic.
C14_HeicConversionWrites ==
    (ConvertDone /\ args.format = "heic" /\ heic_files[1].kind = "ok"
        /\ PlainPath(heic_files[1], ".heic") \notin fs \ {written.ret}
        /\ ~resize_image(DecodedSize, args).err) =>
        /\ written.ret = PlainPath(heic_files[1], ".heic")
        /\ written.ret \in fs

(***************************************************************************)
(* Properties of main() (specification SpecMain).                          *)
(***************************************************************************)
MainRunning == pc \in {"main_start", "discover", "loop"}

OutputDirCannotBeCreated == os_makedirs(fs, OutputDir) # None

\* C13: when the output directory cannot be created the run is aborted
\* before any file is processed and ends with a non-zero exit code; no file
\* is taken through the loop and counted as skipped or failed.
C13_OutputDirFailureIsFatal ==
    (caller = "cli" /\ OutputDirCannotBeCreated) =>
        /\ i = 0
        /\ log = <<>>
        /\ skipped_count = 0 /\ failure_count = 0
        /\ (~MainRunning /\ heic_files # <<>>) => exit_code = "1"

\* C19: main() ends with exit code 0 exactly when it completed normally,
\* that is when discovery found no file or the summary was printed, and with
\* 1 when the folder is missing or not a directory or an exception was not
\* handled (the constructor's ValueError, a failing stat in the statistics);
\* it has no exit code while it runs.
C19_ExitCodes ==
    caller = "cli" =>
        /\ MainRunning <=> exit_code = "None"
        /\ ~MainRunning =>
              /\ exit_code \in {"0", "1"}
              /\ exit_code = "0" <=>
                    \/ summary # <<>>
                    \/ /\ IsDir(args.folder)
                       /\ args.jpg_quality \in 1..100
                       /\ find_heic_files(tree, args.folder, args.recursive, platform) = {}
              /\ (args.folder = None \/ ~IsDir(args.folder)) => exit_code = "1"
              /\ (summary = <<>> /\ heic_files # <<>>) => exit_code = "1"

C19_Witness ==
    /\ caller = "cli"
    /\ ~MainRunning
    /\ IsDir(args.folder)
    /\ tree = { [dir |-> "d1", stem |-> "e", ext |-> ".jpg", kind |-> "other"] }
    /\ heic_files = <<>>
    /\ exit_code = "0"

====
